---- MODULE Spec2Model ----
(***************************************************************************)
(* Model of the voice-chat room server of src/backend/app.py: the global   *)
(* rooms table and the Socket.IO event handlers that read and write it,    *)
(* and of the admin/guest relay of src/app.py.                             *)
(*                                                                         *)
(* Spec, SpecMic and SpecCount take a handler as one atomic action (events *)
(* are processed one at a time); SpecRace runs handle_join_mic as threads  *)
(* that interleave at its statements, and SpecJoinLeave does the same for  *)
(* join_room, leave_room and disconnect; SpecRelay is the relay.           *)
(* Timestamps (created_at, updated_at, joined_at, timestamp) are           *)
(* wall-clock readings that no handler ever reads back; they are left out  *)
(* of the records, so update_room_timestamp changes nothing that is        *)
(* modelled.                                                               *)
(***************************************************************************)
EXTENDS Integers, Sequences, FiniteSets, TLC

VARIABLES
    connected,   \* sids of the live Socket.IO connections
    gone,        \* sids that have disconnected (a sid is never reused)
    sio_rooms,   \* Socket.IO room membership: sid -> set of room names
    rooms,       \* the global rooms dict: room_id -> room record
    rooms_keys,  \* insertion order of the keys of the rooms dict
    emitted,     \* the emit() calls of the last handler, in order
    last,        \* the last event handled and its payload
    steps,       \* number of events handled so far (bounds the exploration)
    joins,       \* join_room events handled so far for the counted room
    leaves,      \* leave_room events handled so far for the counted room
    pc,          \* sid -> where the handler thread of that connection stands
    thr,         \* sid -> the local variables of that handler thread
    active_users \* src/app.py: the relay's role -> sid table

\* what the room server's event-at-a-time actions leave alone
aux == <<joins, leaves, pc, thr, active_users>>

vars == <<connected, gone, sio_rooms, rooms, rooms_keys, emitted, last, steps,
          joins, leaves, pc, thr, active_users>>

----------------------------------------------------------------------------
(* Bounds and input sets *)

MaxSteps == 4

MaxSlot == 10

Sids == {"c1", "c2"}

UserNames == {"alice", "bob"}

RoomIds == {"R1", "R2"}

\* a payload field that the client did not send
Absent == "<absent>"

\* slot numbers tried by clients: below the range (0 is also what a handler
\* reads when the payload has no slot), two valid ones, above the range
SlotInputs == {0, 1, 2, MaxSlot + 1}

\* TRTC user ids sent with join_mic
UserIds == {Absent}

\* chat texts as sequences of characters; " " is whitespace, and the empty
\* text is also what the handler reads when the payload has no text
Texts == {<< >>, <<" ">>, <<" ", "a">>}

----------------------------------------------------------------------------
(* Python helpers *)

\* str(n) for the slot numbers 0..11
SlotStr(n) ==
    IF n = 0 THEN "0"
    ELSE <<"1", "2", "3", "4", "5", "6", "7", "8", "9", "10", "11">>[n]

\* data.get(key, default)
Get(v, default) == IF v = Absent THEN default ELSE v

\* str(data.get("roomId")): a missing roomId is None, and str(None) = "None"
StrRoomId(v) == IF v = Absent THEN "None" ELSE v

\* f"User_{request.sid[:6]}"
DefaultUserName(sid) == IF sid = "c1" THEN "User_c1" ELSE "User_c2"

RECURSIVE LStrip(_)
LStrip(t) == IF t # << >> /\ Head(t) = " " THEN LStrip(Tail(t)) ELSE t

RECURSIVE RStrip(_)
RStrip(t) == IF t # << >> /\ t[Len(t)] = " "
             THEN RStrip(SubSeq(t, 1, Len(t) - 1)) ELSE t

\* str.strip()
Strip(t) == RStrip(LStrip(t))

EmptyDict == << >>

\* d[k] = v
DictPut(d, k, v) == [x \in DOMAIN d \cup {k} |-> IF x = k THEN v ELSE d[x]]

\* del d[k]
DictDel(d, k) == [x \in DOMAIN d \ {k} |-> d[x]]

\* dict.get(k, default)
DictGet(d, k, default) == IF k \in DOMAIN d THEN d[k] ELSE default

\* the sequence s without its i-th element
SeqRemoveAt(s, i) == SubSeq(s, 1, i - 1) \o SubSeq(s, i + 1, Len(s))

\* the first of a set I of positions of an ordered dict, 0 when I is empty
FirstIndex(I) ==
    IF I = {} THEN 0 ELSE CHOOSE i \in I : \A j \in I : i <= j

\* the position of socket_id sid in a users dict, 0 when it is not a key
UsersIndex(users, sid) ==
    FirstIndex({i \in 1..Len(users) : users[i].socket_id = sid})

----------------------------------------------------------------------------
(* The room record and its users dict (socket_id -> user_data, in insertion *)
(* order)                                                                   *)

NewRoom == [users      |-> << >>,
            messages   |-> << >>,
            mic_slots  |-> EmptyDict,
            user_slots |-> EmptyDict,
            user_ids   |-> EmptyDict]

\* request.sid in room["users"]
InUsers(room, sid) == \E i \in 1..Len(room.users) : room.users[i].socket_id = sid

UserIndex(room, sid) == UsersIndex(room.users, sid)

\* room["users"][sid]["name"]
StoredName(room, sid) == room.users[UserIndex(room, sid)].name

\* UsersPut that adds a record even when the key is already there
UsersPutAppends(users, user_data) == Append(users, user_data)

\* room["users"][sid] = user_data: a known key keeps its place in the dict
UsersPut(users, user_data) ==
    LET i == UsersIndex(users, user_data.socket_id)
    IN  IF i = 0 THEN Append(users, user_data) ELSE [users EXCEPT ![i] = user_data]

\* del room["users"][sid]
UsersDel(users, sid) == SeqRemoveAt(users, UsersIndex(users, sid))

\* [{"name": user["name"], ...} for user in room["users"].values()]
MemberList(room) == [i \in 1..Len(room.users) |-> [name |-> room.users[i].name]]

----------------------------------------------------------------------------
(* emit(): the recipients are computed from the Socket.IO rooms at the time *)
(* of the call                                                              *)

\* emit(event, data, room=room_id[, include_self=False]) by connection sid,
\* sio being the Socket.IO room membership at the time of the call
EmitRoom(sio, event, data, room_id, sid, include_self) ==
    [event |-> event, data |-> data, to |-> room_id,
     rcpt  |-> {s \in connected : room_id \in sio[s]}
               \ (IF include_self THEN {} ELSE {sid})]

\* emit(event, data, to=request.sid), and emit(event, data) with no target
EmitSid(event, data, sid) ==
    [event |-> event, data |-> data, to |-> sid, rcpt |-> {sid}]

----------------------------------------------------------------------------
(* Handlers.  Each operator gives the rooms dict, its key order and the    *)
(* emit() calls the handler leaves behind when run by connection sid in    *)
(* the current state.                                                      *)

Result(r, k, out) == [rooms |-> r, keys |-> k, out |-> out]

\* get_or_create_room: the rooms dict and its key order after the call
GetOrCreateRoom(room_id) ==
    IF room_id \in DOMAIN rooms
    THEN [rooms |-> rooms, keys |-> rooms_keys]
    ELSE [rooms |-> DictPut(rooms, room_id, NewRoom),
          keys  |-> Append(rooms_keys, room_id)]

JoinedMsg(username) ==
    [user |-> "System", text |-> <<username, " has joined the room">>,
     isSystem |-> TRUE]

LeftMsg(username) ==
    [user |-> "System", text |-> <<username, " has left the room">>]

\* RoomData with the member list read before the joiner is stored
RoomDataStaleUsers(room, room_id, username) ==
    LET NotJoiner(u) == u.name # username
    IN  [micSlots |-> room.mic_slots,
         users    |-> SelectSeq(MemberList(room), NotJoiner),
         roomId   |-> room_id,
         yourName |-> username]

\* the room_data payload of handle_join_room
RoomData(room, room_id, username) ==
    [micSlots |-> room.mic_slots,
     users    |-> MemberList(room),
     roomId   |-> room_id,
     yourName |-> username]

\* JoinRoomAnnounce without include_self=False
JoinRoomAnnounceToAll(sio, msg, room_id, sid) ==
    EmitRoom(sio, "new_message", msg, room_id, sid, TRUE)

\* the broadcast of the join message: room=room_id, include_self=False
JoinRoomAnnounce(sio, msg, room_id, sid) ==
    EmitRoom(sio, "new_message", msg, room_id, sid, FALSE)

HandleJoinRoom(sid, roomId, userName) ==
    LET room_id  == StrRoomId(roomId)
        username == Get(userName, DefaultUserName(sid))
        got      == GetOrCreateRoom(room_id)
        room1    == [got.rooms[room_id] EXCEPT
                       !.users = UsersPut(@, [name |-> username, socket_id |-> sid])]
        sio1     == [sio_rooms EXCEPT ![sid] = @ \cup {room_id}]
        msg      == JoinedMsg(username)
        room2    == [room1 EXCEPT !.messages = Append(@, msg)]
    IN  Result(DictPut(got.rooms, room_id, room2), got.keys,
               << EmitSid("room_data", RoomData(room1, room_id, username), sid),
                  JoinRoomAnnounce(sio1, msg, room_id, sid) >>)

\* del rooms[room_id], with the key order of the dict
RoomsDel(room_id) ==
    [rooms |-> DictDel(rooms, room_id),
     keys  |-> SeqRemoveAt(rooms_keys,
                           FirstIndex({i \in 1..Len(rooms_keys) :
                                         rooms_keys[i] = room_id}))]

\* handle_leave_room, "Remove from mic slots if user was in a slot": the room
\* after it and the emit it makes
LeaveRoomFreeSlot(room, room_id, username, sid) ==
    IF username \in DOMAIN room.user_slots
    THEN LET slot == room.user_slots[username]
         IN  [room |-> [room EXCEPT
                          !.mic_slots  = IF SlotStr(slot) \in DOMAIN @
                                         THEN DictDel(@, SlotStr(slot)) ELSE @,
                          !.user_slots = DictDel(@, username),
                          !.user_ids   = IF username \in DOMAIN @
                                         THEN DictDel(@, username) ELSE @],
              out  |-> << EmitRoom(sio_rooms, "user_left_mic",
                                   [slot |-> slot, userName |-> username],
                                   room_id, sid, TRUE) >>]
    ELSE [room |-> room, out |-> << >>]

\* LeaveRoomCleanEmpty without the deletion of the empty room
LeaveRoomKeepsEmpty(room_id, room) ==
    [rooms |-> DictPut(rooms, room_id, room), keys |-> rooms_keys]

\* handle_leave_room, "Clean empty room"
LeaveRoomCleanEmpty(room_id, room) ==
    IF room.users = << >>
    THEN RoomsDel(room_id)
    ELSE [rooms |-> DictPut(rooms, room_id, room), keys |-> rooms_keys]

\* handle_leave_room, its two early returns: no such room, or not a user of it
LeaveRoomReturnsEarly(sid, room_id) ==
    \/ room_id = ""
    \/ room_id \notin DOMAIN rooms
    \/ ~InUsers(rooms[room_id], sid)

HandleLeaveRoom(sid, roomId, userName) ==
    LET room_id == Get(roomId, "")
    IN  IF LeaveRoomReturnsEarly(sid, room_id)
        THEN Result(rooms, rooms_keys, << >>)
        ELSE LET room     == rooms[room_id]
                 username == StoredName(room, sid)
                 freed    == LeaveRoomFreeSlot(room, room_id, username, sid)
                 msg      == LeftMsg(username)
                 room1    == [freed.room EXCEPT !.users    = UsersDel(@, sid),
                                                !.messages = Append(@, msg)]
                 cleaned  == LeaveRoomCleanEmpty(room_id, room1)
             IN  Result(cleaned.rooms, cleaned.keys,
                        freed.out \o << EmitRoom(sio_rooms, "new_message", msg,
                                                 room_id, sid, TRUE) >>)

\* handle_disconnect, the body of its loop for the room it finds
DisconnectFrom(sid, room_id) ==
    LET room_data == rooms[room_id]
        username  == StoredName(room_data, sid)
        hasSlot   == username \in DOMAIN room_data.user_slots
        slot      == room_data.user_slots[username]
        room1     == IF hasSlot
                     THEN [room_data EXCEPT
                             !.mic_slots  = IF SlotStr(slot) \in DOMAIN @
                                            THEN DictDel(@, SlotStr(slot)) ELSE @,
                             !.user_slots = DictDel(@, username),
                             !.user_ids   = IF username \in DOMAIN @
                                            THEN DictDel(@, username) ELSE @]
                     ELSE room_data
        out1      == IF hasSlot
                     THEN << EmitRoom(sio_rooms, "user_left_mic",
                                      [slot |-> slot, userName |-> username],
                                      room_id, sid, TRUE) >>
                     ELSE << >>
        msg       == [user |-> "System", text |-> <<username, " has left the room">>]
        room2     == [room1 EXCEPT !.users    = UsersDel(@, sid),
                                   !.messages = Append(@, msg)]
        out2      == out1 \o << EmitRoom(sio_rooms, "new_message", msg,
                                         room_id, sid, TRUE) >>
    IN  IF room2.users = << >>
        THEN LET d == RoomsDel(room_id) IN Result(d.rooms, d.keys, out2)
        ELSE Result(DictPut(rooms, room_id, room2), rooms_keys, out2)

\* DisconnectNoRoom with the leave message sent outside the membership test
DisconnectNoRoomAnnounces(sid) ==
    Result(rooms, rooms_keys,
           << EmitSid("new_message",
                      [user |-> "System", text |-> <<"Unknown", " has left the room">>],
                      sid) >>)

\* handle_disconnect when its loop finds no room with the sid: nothing happens
DisconnectNoRoom(sid) == Result(rooms, rooms_keys, << >>)

\* for room_id, room_data in rooms.items(): if request.sid in room_data["users"]
\* ... break: only the first room, in dict order, that has sid as a user
HandleDisconnect(sid) ==
    LET i == FirstIndex({k \in 1..Len(rooms_keys) :
                           InUsers(rooms[rooms_keys[k]], sid)})
    IN  IF i = 0
        THEN DisconnectNoRoom(sid)
        ELSE DisconnectFrom(sid, rooms_keys[i])

\* SendMessageReturnsEarly without "Verify user is in room"
SendMessageSkipsMemberCheck(sid, room_id, stripped) ==
    \/ stripped = << >>
    \/ room_id = ""
    \/ room_id \notin DOMAIN rooms

\* handle_send_message, its two early returns: empty text or no such room, or
\* the sender is not a user of the room
SendMessageReturnsEarly(sid, room_id, stripped) ==
    \/ stripped = << >>
    \/ room_id = ""
    \/ room_id \notin DOMAIN rooms
    \/ ~InUsers(rooms[room_id], sid)

HandleSendMessage(sid, roomId, userName, text) ==
    LET room_id  == StrRoomId(roomId)
        username == Get(userName, "Anonymous")
        stripped == Strip(text)
    IN  IF SendMessageReturnsEarly(sid, room_id, stripped)
        THEN Result(rooms, rooms_keys, << >>)
        ELSE LET msg == [user |-> username, text |-> stripped, socket_id |-> sid]
             IN  Result([rooms EXCEPT ![room_id].messages = Append(@, msg)],
                        rooms_keys,
                        << EmitRoom(sio_rooms, "new_message", msg, room_id, sid, TRUE) >>)

\* MicError sent to every connection instead of the requester
MicErrorToAll(text, sid) ==
    [event |-> "mic_error", data |-> [message |-> text], to |-> "",
     rcpt |-> connected]

\* emit("mic_error", {"message": text}, to=request.sid)
MicError(text, sid) == EmitSid("mic_error", [message |-> text], sid)

\* JoinMicRemoveOld that announces the old slot as left but keeps it in mic_slots
JoinMicKeepsOld(room, room_id, username, sid) ==
    IF username \in DOMAIN room.user_slots
    THEN [room |-> room,
          out  |-> << EmitRoom(sio_rooms, "user_left_mic",
                               [slot |-> room.user_slots[username],
                                userName |-> username],
                               room_id, sid, TRUE) >>]
    ELSE [room |-> room, out |-> << >>]

\* handle_join_mic, "Remove user from any existing slot": the room after it
\* and the emit it makes
JoinMicRemoveOld(room, room_id, username, sid) ==
    IF username \in DOMAIN room.user_slots
    THEN LET old_slot == room.user_slots[username]
         IN  [room |-> [room EXCEPT
                          !.mic_slots = IF SlotStr(old_slot) \in DOMAIN @
                                        THEN DictDel(@, SlotStr(old_slot)) ELSE @],
              out  |-> << EmitRoom(sio_rooms, "user_left_mic",
                                   [slot |-> old_slot, userName |-> username],
                                   room_id, sid, TRUE) >>]
    ELSE [room |-> room, out |-> << >>]

\* handle_join_mic, "Check if slot is available": the slot is in mic_slots
\* under another name
JoinMicSlotTaken(room, slot, username) ==
    /\ SlotStr(slot) \in DOMAIN room.mic_slots
    /\ room.mic_slots[SlotStr(slot)] # username

\* JoinMicAssign that takes a slot user_slots already records under the name
\* as assigned, and does not write mic_slots for it
JoinMicAssignSkipsKnownSlot(room, room_id, slot, username, user_id, sid) ==
    LET known == /\ username \in DOMAIN room.user_slots
                 /\ room.user_slots[username] = slot
        room1 == [room EXCEPT
                    !.mic_slots  = IF known THEN @
                                   ELSE DictPut(@, SlotStr(slot), username),
                    !.user_slots = DictPut(@, username, slot)]
        msg   == [user |-> "System",
                  text |-> <<username, " joined mic slot ", SlotStr(slot)>>]
    IN  [room |-> [room1 EXCEPT !.messages = Append(@, msg)],
         out  |-> << EmitRoom(sio_rooms, "mic_update", room1.mic_slots,
                              room_id, sid, TRUE),
                     EmitRoom(sio_rooms, "user_joined_mic",
                              [slot |-> slot, userName |-> username,
                               userId |-> user_id],
                              room_id, sid, TRUE),
                     EmitRoom(sio_rooms, "new_message", msg, room_id, sid, TRUE) >>]

\* handle_join_mic from "Assign slot to user" to its end
JoinMicAssign(room, room_id, slot, username, user_id, sid) ==
    LET room1 == [room EXCEPT
                    !.mic_slots  = DictPut(@, SlotStr(slot), username),
                    !.user_slots = DictPut(@, username, slot),
                    !.user_ids   = IF user_id # "" THEN DictPut(@, username, user_id)
                                   ELSE @]
        msg   == [user |-> "System",
                  text |-> <<username, " joined mic slot ", SlotStr(slot)>>]
        room2 == [room1 EXCEPT !.messages = Append(@, msg)]
    IN  [room |-> room2,
         out  |-> << EmitRoom(sio_rooms, "mic_update", room1.mic_slots,
                              room_id, sid, TRUE),
                     EmitRoom(sio_rooms, "user_joined_mic",
                              [slot     |-> slot,
                               userName |-> username,
                               userId   |-> IF user_id # "" THEN user_id
                                            ELSE DictGet(room1.user_ids, username, "")],
                              room_id, sid, TRUE),
                     EmitRoom(sio_rooms, "new_message", msg, room_id, sid, TRUE) >>]

HandleJoinMic(sid, roomId, slot, userName, userId) ==
    LET room_id == StrRoomId(roomId)
        given   == Get(userName, "")
        user_id == Get(userId, "")
    IN  IF room_id = "" \/ room_id \notin DOMAIN rooms \/ slot < 1 \/ slot > MaxSlot
        THEN Result(rooms, rooms_keys,
                    << MicError(<<"Invalid room or slot">>, sid) >>)
        ELSE IF ~InUsers(rooms[room_id], sid)
        THEN Result(rooms, rooms_keys,
                    << MicError(<<"You are not in this room">>, sid) >>)
        ELSE LET room     == rooms[room_id]
                 username == IF given = "" THEN StoredName(room, sid) ELSE given
                 removed  == JoinMicRemoveOld(room, room_id, username, sid)
             IN  IF JoinMicSlotTaken(removed.room, slot, username)
                 THEN Result(DictPut(rooms, room_id, removed.room), rooms_keys,
                             removed.out \o
                             << MicError(<<"Slot ", SlotStr(slot),
                                           " is already taken by ",
                                           removed.room.mic_slots[SlotStr(slot)]>>,
                                         sid) >>)
                 ELSE LET done == JoinMicAssign(removed.room, room_id, slot,
                                                username, user_id, sid)
                      IN  Result(DictPut(rooms, room_id, done.room), rooms_keys,
                                 removed.out \o done.out)

\* LeaveMicHolds that looks at the slot only, not at the name in it
LeaveMicHoldsAnyName(room, slot, username) ==
    SlotStr(slot) \in DOMAIN room.mic_slots

\* handle_leave_mic, "Remove from specific slot": the slot sent is in
\* mic_slots under the name
LeaveMicHolds(room, slot, username) ==
    /\ SlotStr(slot) \in DOMAIN room.mic_slots
    /\ room.mic_slots[SlotStr(slot)] = username

HandleLeaveMic(sid, roomId, slot, userName) ==
    LET room_id == StrRoomId(roomId)
        given   == Get(userName, "")
    IN  IF room_id = "" \/ room_id \notin DOMAIN rooms
        THEN Result(rooms, rooms_keys, << >>)
        ELSE LET room     == rooms[room_id]
                 username == IF given = "" /\ InUsers(room, sid)
                             THEN StoredName(room, sid) ELSE given
             IN  IF username = ""
                 THEN Result(rooms, rooms_keys, << >>)
                 ELSE IF LeaveMicHolds(room, slot, username)
                 THEN LET msg   == [user |-> "System",
                                    text |-> <<username, " left mic slot ",
                                               SlotStr(slot)>>]
                          room1 == [room EXCEPT
                                      !.mic_slots  = DictDel(@, SlotStr(slot)),
                                      !.user_slots = IF username \in DOMAIN @
                                                     THEN DictDel(@, username) ELSE @,
                                      !.messages   = Append(@, msg)]
                      IN  Result(DictPut(rooms, room_id, room1), rooms_keys,
                                 << EmitRoom(sio_rooms, "user_left_mic",
                                             [slot |-> slot, userName |-> username],
                                             room_id, sid, TRUE),
                                    EmitRoom(sio_rooms, "new_message", msg,
                                             room_id, sid, TRUE) >>)
                 ELSE Result(rooms, rooms_keys, << >>)

----------------------------------------------------------------------------
(* The state machine: one action per Socket.IO event *)

\* Python's None
None == "<None>"

\* the locals of a handler thread that has not started
NoLocals == [slot |-> 0, username |-> "", out |-> << >>]

Init ==
    /\ connected = {}
    /\ gone = {}
    /\ sio_rooms = [s \in Sids |-> {}]
    /\ rooms = EmptyDict
    /\ rooms_keys = << >>
    /\ emitted = << >>
    /\ last = [ev |-> "none", sid |-> "", data |-> << >>]
    /\ steps = 0
    /\ joins = 0
    /\ leaves = 0
    /\ pc = [s \in Sids |-> "idle"]
    /\ thr = [s \in Sids |-> NoLocals]
    /\ active_users = [admin |-> None, guest |-> None]

\* the handler's writes to the rooms dict and its emits, for event ev
Handled(res, ev, sid, data) ==
    /\ rooms' = res.rooms
    /\ rooms_keys' = res.keys
    /\ emitted' = res.out
    /\ last' = [ev |-> ev, sid |-> sid, data |-> data]
    /\ steps' = steps + 1

\* a client connects: handle_connect
Connect ==
    \E sid \in Sids \ (connected \cup gone) :
        /\ connected' = connected \cup {sid}
        /\ emitted' = << EmitSid("connected",
                                 [sid |-> sid, status |-> "connected"], sid) >>
        /\ last' = [ev |-> "connect", sid |-> sid, data |-> << >>]
        /\ UNCHANGED <<gone, sio_rooms, rooms, rooms_keys, steps>>
        /\ UNCHANGED aux

\* a connection ends: handle_disconnect runs, then Socket.IO drops the sid
\* from all of its rooms
DisconnectStep(sid) ==
    /\ Handled(HandleDisconnect(sid), "disconnect", sid, << >>)
    /\ connected' = connected \ {sid}
    /\ gone' = gone \cup {sid}
    /\ sio_rooms' = [sio_rooms EXCEPT ![sid] = {}]

Disconnect ==
    \E sid \in connected :
        /\ steps < MaxSteps
        /\ DisconnectStep(sid)
        /\ UNCHANGED aux

\* connection sid sends join_room: handle_join_room, with its join_room(room_id)
JoinRoomStep(sid, roomId, userName) ==
    /\ Handled(HandleJoinRoom(sid, roomId, userName), "join_room", sid,
               [roomId |-> roomId, userName |-> userName])
    /\ sio_rooms' = [sio_rooms EXCEPT ![sid] = @ \cup {StrRoomId(roomId)}]
    /\ UNCHANGED <<connected, gone>>

JoinRoom ==
    \E sid \in connected, roomId \in RoomIds,
       userName \in UserNames :
        /\ steps < MaxSteps
        /\ JoinRoomStep(sid, roomId, userName)
        /\ UNCHANGED aux

\* connection sid sends leave_room: handle_leave_room, with its leave_room(room_id)
LeaveRoomStep(sid, roomId) ==
    /\ LET res == HandleLeaveRoom(sid, roomId, Absent)
       IN  /\ Handled(res, "leave_room", sid, [roomId |-> roomId])
           \* leave_room(room_id) is reached only past the early returns
           /\ sio_rooms' = IF LeaveRoomReturnsEarly(sid, Get(roomId, ""))
                           THEN sio_rooms
                           ELSE [sio_rooms EXCEPT ![sid] = @ \ {roomId}]
    /\ UNCHANGED <<connected, gone>>

LeaveRoom ==
    \E sid \in connected, roomId \in RoomIds \cup {Absent} :
        /\ steps < MaxSteps
        /\ LeaveRoomStep(sid, roomId)
        /\ UNCHANGED aux

SendMessage ==
    \E sid \in connected, roomId \in RoomIds \cup {Absent},
       userName \in {Absent}, text \in Texts :
        /\ steps < MaxSteps
        /\ Handled(HandleSendMessage(sid, roomId, userName, text), "send_message",
                   sid, [roomId |-> roomId, userName |-> userName, text |-> text])
        /\ UNCHANGED <<connected, gone, sio_rooms>>
        /\ UNCHANGED aux

\* connection sid sends join_mic: handle_join_mic
JoinMicStep(sid, roomId, slot, userName, userId) ==
    /\ Handled(HandleJoinMic(sid, roomId, slot, userName, userId), "join_mic",
               sid, [roomId |-> roomId, slot |-> slot, userName |-> userName,
                     userId |-> userId])
    /\ UNCHANGED <<connected, gone, sio_rooms>>

JoinMic ==
    \E sid \in connected, roomId \in RoomIds, slot \in SlotInputs,
       userName \in UserNames \cup {Absent}, userId \in UserIds :
        /\ steps < MaxSteps
        /\ JoinMicStep(sid, roomId, slot, userName, userId)
        /\ UNCHANGED aux

LeaveMic ==
    \E sid \in connected, roomId \in RoomIds, slot \in SlotInputs,
       userName \in UserNames \cup {Absent} :
        /\ steps < MaxSteps
        /\ Handled(HandleLeaveMic(sid, roomId, slot, userName), "leave_mic", sid,
                   [roomId |-> roomId, slot |-> slot, userName |-> userName])
        /\ UNCHANGED <<connected, gone, sio_rooms>>
        /\ UNCHANGED aux

Next ==
    \/ Connect
    \/ Disconnect
    \/ JoinRoom
    \/ LeaveRoom
    \/ SendMessage
    \/ JoinMic
    \/ LeaveMic

Spec == Init /\ [][Next]_vars

----------------------------------------------------------------------------
(* Vocabulary of the properties *)

\* the room id an event e names
RoomIdOf(e) == StrRoomId(e.data.roomId)

\* the display name handle_join_mic acts for: the one sent, else the stored one
JoinMicName(e, room) ==
    IF Get(e.data.userName, "") = "" THEN StoredName(room, e.sid)
    ELSE e.data.userName

\* the slots that mic_slots records for name n
SlotsHeldBy(room, n) == {k \in DOMAIN room.mic_slots : room.mic_slots[k] = n}

\* the display name handle_join_room stores: the one sent, else the default
JoinRoomName(e) == Get(e.data.userName, DefaultUserName(e.sid))

\* the rooms that have sid in their users
RoomsOf(sid) == {r \in DOMAIN rooms : InUsers(rooms[r], sid)}

\* the emits of a sequence out that carry event ev
EmitsOf(out, ev) == {i \in 1..Len(out) : out[i].event = ev}

\* the last n elements of a sequence
LastN(s, n) == IF Len(s) <= n THEN s ELSE SubSeq(s, Len(s) - n + 1, Len(s))

\* the messages a room_data payload carries
SnapshotMessages(data) == IF "messages" \in DOMAIN data THEN data.messages ELSE << >>

----------------------------------------------------------------------------
(* C1 - C10 *)

\* a join_mic by a member for a slot that mic_slots gives to another name
JoinMicConflict(e, r) ==
    /\ e.ev = "join_mic"
    /\ RoomIdOf(e) = r
    /\ e.data.slot \in 1..MaxSlot
    /\ InUsers(rooms[r], e.sid)
    /\ SlotStr(e.data.slot) \in DOMAIN rooms[r].mic_slots
    /\ rooms[r].mic_slots[SlotStr(e.data.slot)] # JoinMicName(e, rooms[r])

\* C1: a join_mic for a slot held by a different display name fails with a
\* mic_error sent to the sender only, and leaves the room's mic_slots and
\* user_slots exactly as they were, whether or not the requester's name holds
\* another slot.
C1_ConflictLeavesMapsUnchanged ==
    [][\A r \in DOMAIN rooms :
         JoinMicConflict(last', r) =>
            /\ EmitsOf(emitted', "mic_error") # {}
            /\ \A i \in EmitsOf(emitted', "mic_error") :
                  emitted'[i].rcpt = {last'.sid}
            /\ r \in DOMAIN rooms'
            /\ rooms'[r].mic_slots = rooms[r].mic_slots
            /\ rooms'[r].user_slots = rooms[r].user_slots]_vars

\* slot s is held by name n in mic_slots iff user_slots maps n to s
InverseMaps(room) ==
    /\ \A k \in DOMAIN room.mic_slots :
          /\ room.mic_slots[k] \in DOMAIN room.user_slots
          /\ SlotStr(room.user_slots[room.mic_slots[k]]) = k
    /\ \A n \in DOMAIN room.user_slots :
          /\ SlotStr(room.user_slots[n]) \in DOMAIN room.mic_slots
          /\ room.mic_slots[SlotStr(room.user_slots[n])] = n

\* C2: in every room, after any sequence of events, mic_slots and user_slots
\* are exact inverses of each other.
C2_MapsAreInverses == \A r \in DOMAIN rooms : InverseMaps(rooms[r])

\* a join_mic by a member for the free slot B, for a name that mic_slots
\* records in another slot A
JoinMicMove(e, r, A) ==
    /\ e.ev = "join_mic"
    /\ RoomIdOf(e) = r
    /\ e.data.slot \in 1..MaxSlot
    /\ InUsers(rooms[r], e.sid)
    /\ A # SlotStr(e.data.slot)
    /\ A \in SlotsHeldBy(rooms[r], JoinMicName(e, rooms[r]))
    /\ SlotStr(e.data.slot) \notin DOMAIN rooms[r].mic_slots

\* C3: when a member whose name holds slot A issues join_mic for a different,
\* free slot B, then afterwards slot A is absent from mic_slots, slot B is held
\* by that name, user_slots maps the name to B, and the name is in no slot
\* but B.
C3_MoveFreesOldSlot ==
    [][\A r \in DOMAIN rooms : \A A \in DOMAIN rooms[r].mic_slots :
         JoinMicMove(last', r, A) =>
            LET n == JoinMicName(last', rooms[r])
                B == last'.data.slot
            IN  /\ r \in DOMAIN rooms'
                /\ A \notin DOMAIN rooms'[r].mic_slots
                /\ SlotsHeldBy(rooms'[r], n) = {SlotStr(B)}
                /\ n \in DOMAIN rooms'[r].user_slots
                /\ rooms'[r].user_slots[n] = B]_vars

\* C3 witness: a join_mic has just moved a name from one slot to another
C3_Witness ==
    /\ last.ev = "join_mic"
    /\ \E i, j \in 1..Len(emitted) :
          /\ i < j
          /\ emitted[i].event = "user_left_mic"
          /\ emitted[j].event = "user_joined_mic"
          /\ emitted[i].data.userName = emitted[j].data.userName
          /\ emitted[i].data.slot # emitted[j].data.slot
          /\ SlotStr(emitted[i].data.slot) \notin
                DOMAIN rooms[RoomIdOf(last)].mic_slots

\* C4: a room id is in the rooms table if and only if that room has at least
\* one member record (the keys of the table being exactly its rooms).
C4_RoomExistsIffMembers ==
    /\ \A r \in DOMAIN rooms : rooms[r].users # << >>
    /\ {rooms_keys[i] : i \in 1..Len(rooms_keys)} = DOMAIN rooms
    /\ Len(rooms_keys) = Cardinality(DOMAIN rooms)

\* C4 witness: the last member of a room has just left, and the room is gone
\* while another room stays
C4_Witness ==
    /\ last.ev \in {"leave_room", "disconnect"}
    /\ emitted # << >>
    /\ emitted[Len(emitted)].to \notin DOMAIN rooms
    /\ rooms # EmptyDict

\* C5: when the last member of a room leaves or disconnects, the room is
\* removed from the rooms table; and a join_room for a room id that was
\* removed creates a room whose log holds only that join's system message and
\* whose mic_slots and user_slots are empty.
C5_LastLeaveDeletesRoom ==
    [][/\ \A r \in DOMAIN rooms :
            ( /\ \/ last'.ev = "disconnect"
                 \/ last'.ev = "leave_room" /\ last'.data.roomId = r
              /\ Len(rooms[r].users) = 1
              /\ rooms[r].users[1].socket_id = last'.sid )
            => r \notin DOMAIN rooms'
       /\ ( /\ last'.ev = "join_room"
            /\ RoomIdOf(last') \notin DOMAIN rooms )
          => LET room == rooms'[RoomIdOf(last')]
             IN  /\ room.messages = << JoinedMsg(JoinRoomName(last')) >>
                 /\ room.mic_slots = EmptyDict
                 /\ room.user_slots = EmptyDict]_vars

\* C6: a send_message from a connection that is not a user of the named room,
\* or naming a room that does not exist, or with a text that is empty once
\* stripped, changes no room and emits nothing.
C6_RejectedSendChangesNothing ==
    [][( /\ last'.ev = "send_message"
         /\ \/ RoomIdOf(last') \notin DOMAIN rooms
            \/ ~InUsers(rooms[RoomIdOf(last')], last'.sid)
            \/ Strip(last'.data.text) = << >> )
       => /\ rooms' = rooms
          /\ rooms_keys' = rooms_keys
          /\ emitted' = << >>]_vars

\* C6 witness: a non-empty message for an existing room has just been sent
\* by a connection that is not a user of it
C6_Witness ==
    /\ last.ev = "send_message"
    /\ Strip(last.data.text) # << >>
    /\ RoomIdOf(last) \in DOMAIN rooms
    /\ ~InUsers(rooms[RoomIdOf(last)], last.sid)
    /\ emitted = << >>

\* C7: a disconnect or leave_room of a connection that is a user of no room
\* leaves the rooms table unchanged and emits nothing.
C7_CleanupOfNonMemberIsNoOp ==
    [][( /\ last'.ev \in {"disconnect", "leave_room"}
         /\ RoomsOf(last'.sid) = {} )
       => /\ rooms' = rooms
          /\ rooms_keys' = rooms_keys
          /\ emitted' = << >>]_vars

\* C7 witness: a connection that is in no room has just disconnected or sent
\* leave_room, while another connection's room exists
C7_Witness ==
    /\ last.ev \in {"disconnect", "leave_room"}
    /\ RoomsOf(last.sid) = {}
    /\ emitted = << >>
    /\ rooms # EmptyDict

\* C8: for a connection that is a user of a room, handle_disconnect has the
\* effect of handle_leave_room for that room: the same rooms table and the
\* same emits.
C8_DisconnectIsLeave ==
    \A sid \in connected : \A r \in RoomsOf(sid) :
        HandleDisconnect(sid) = HandleLeaveRoom(sid, r, Absent)

\* the room_data snapshot of a join_room is sent first
SnapshotOf(out) == out[1]

\* C9: the snapshot sent on join_room carries the most recent messages of the
\* room (the last 50, in log order), the current slot map and the current
\* member list including the joiner.
C9_SnapshotHasMessages ==
    [][last'.ev = "join_room" =>
         LET r    == RoomIdOf(last')
             snap == SnapshotOf(emitted').data
         IN  /\ SnapshotOf(emitted').event = "room_data"
             /\ r \in DOMAIN rooms =>
                   SnapshotMessages(snap) = LastN(rooms[r].messages, 50)
             /\ snap.micSlots = rooms'[r].mic_slots
             /\ snap.users = MemberList(rooms'[r])
             /\ \E i \in 1..Len(snap.users) :
                   snap.users[i].name = JoinRoomName(last')]_vars

\* C9 as amended: the snapshot sent on join_room carries no messages; it
\* carries the current slot map and the current member list including the
\* joiner, with the room id and the joiner's name.
C9_SnapshotWithoutMessages ==
    [][last'.ev = "join_room" =>
         LET r    == RoomIdOf(last')
             snap == SnapshotOf(emitted').data
         IN  /\ SnapshotOf(emitted').event = "room_data"
             /\ EmitsOf(emitted', "room_data") = {1}
             /\ DOMAIN snap = {"micSlots", "users", "roomId", "yourName"}
             /\ snap.micSlots = rooms'[r].mic_slots
             /\ snap.users = MemberList(rooms'[r])
             /\ snap.users[UserIndex(rooms'[r], last'.sid)].name
                   = JoinRoomName(last')
             /\ snap.roomId = r
             /\ snap.yourName = JoinRoomName(last')]_vars

\* C9 witness: a second connection has just joined a room that has a log and
\* an occupied slot
C9_Witness ==
    /\ last.ev = "join_room"
    /\ SnapshotOf(emitted).event = "room_data"
    /\ SnapshotOf(emitted).data.micSlots # EmptyDict
    /\ Len(SnapshotOf(emitted).data.users) = 2
    /\ Len(rooms[RoomIdOf(last)].messages) >= 3

\* C10: on join_room the snapshot goes to the joining connection and to no
\* other; the "has joined" message is appended to the room's log and goes to
\* every other connection that is a user of the room, not to the joiner.
C10_SnapshotToJoinerOnly ==
    [][last'.ev = "join_room" =>
         LET r   == RoomIdOf(last')
             sid == last'.sid
             msg == JoinedMsg(JoinRoomName(last'))
             log == IF r \in DOMAIN rooms THEN rooms[r].messages ELSE << >>
         IN  /\ \A i \in EmitsOf(emitted', "room_data") : emitted'[i].rcpt = {sid}
             /\ EmitsOf(emitted', "room_data") # {}
             /\ rooms'[r].messages = Append(log, msg)
             /\ \E i \in 1..Len(emitted') :
                   /\ EmitsOf(emitted', "new_message") = {i}
                   /\ emitted'[i].data = msg
                   /\ emitted'[i].rcpt =
                         {s \in connected' \ {sid} : InUsers(rooms'[r], s)}]_vars

\* C10 witness: a connection has just joined a room that another connection
\* is in, and the other one was sent the "has joined" message
C10_Witness ==
    /\ last.ev = "join_room"
    /\ Len(emitted) = 2
    /\ emitted[1].rcpt = {last.sid}
    /\ emitted[2].rcpt # {}
    /\ last.sid \notin emitted[2].rcpt

----------------------------------------------------------------------------
(* C11 - C20 *)

\* the emits of out that tell the room a slot was taken over by a name other
\* than the requester's: the mic_error of the "Check if slot is available"
SlotTakenErrors(out) ==
    {i \in EmitsOf(out, "mic_error") :
        /\ Len(out[i].data.message) = 4
        /\ out[i].data.message[3] = " is already taken by "}

\* C11: a successful join_mic that moves a name from slot A to slot B emits
\* user_left_mic for A before user_joined_mic for B, and a join_mic that
\* ends in a slot-taken mic_error emits no user_left_mic.
C11_LeftBeforeJoinedAndNoneOnConflict ==
    [][/\ \A r \in DOMAIN rooms : \A A \in DOMAIN rooms[r].mic_slots :
            JoinMicMove(last', r, A) =>
               LET n == JoinMicName(last', rooms[r])
               IN  \E i, j \in 1..Len(emitted') :
                      /\ i < j
                      /\ emitted'[i].event = "user_left_mic"
                      /\ SlotStr(emitted'[i].data.slot) = A
                      /\ emitted'[i].data.userName = n
                      /\ emitted'[j].event = "user_joined_mic"
                      /\ emitted'[j].data.slot = last'.data.slot
                      /\ emitted'[j].data.userName = n
       /\ ( last'.ev = "join_mic" /\ SlotTakenErrors(emitted') # {} )
             => EmitsOf(emitted', "user_left_mic") = {}]_vars

\* the display name handle_leave_mic acts for: the one sent, else the stored
\* one of a member, else none
LeaveMicName(e, room) ==
    IF Get(e.data.userName, "") = "" /\ InUsers(room, e.sid)
    THEN StoredName(room, e.sid)
    ELSE Get(e.data.userName, "")

\* a leave_mic event for the existing room r that carries or resolves a name;
\* slot 0 is the event without a slot number
LeaveMicFor(e, r) ==
    /\ e.ev = "leave_mic"
    /\ RoomIdOf(e) = r
    /\ r \in DOMAIN rooms
    /\ LeaveMicName(e, rooms[r]) # ""

\* mic_slots of room without the slots in K
WithoutSlots(room, K) == [k \in DOMAIN room.mic_slots \ K |-> room.mic_slots[k]]

\* C14 (as stated): a leave_mic that gives no slot number releases whichever
\* slot the display name holds in the room; one that gives a slot number
\* releases that slot only if the name holds it.
C14_NoSlotReleasesHeldSlot ==
    [][\A r \in DOMAIN rooms :
         LeaveMicFor(last', r) =>
            LET n == LeaveMicName(last', rooms[r])
                S == SlotStr(last'.data.slot)
            IN  /\ r \in DOMAIN rooms'
                /\ rooms'[r].mic_slots =
                     IF last'.data.slot = 0
                     THEN WithoutSlots(rooms[r], SlotsHeldBy(rooms[r], n))
                     ELSE IF S \in SlotsHeldBy(rooms[r], n)
                     THEN WithoutSlots(rooms[r], {S})
                     ELSE rooms[r].mic_slots]_vars

\* C14 (amended): a leave_mic releases a slot only when it gives the slot
\* number and that slot is held by the display name; it then also drops the
\* name from user_slots.  A leave_mic without a slot number, or for a slot
\* the name does not hold, leaves mic_slots and user_slots as they were.
C14_ReleasesOnlyTheSlotGiven ==
    [][\A r \in DOMAIN rooms :
         LeaveMicFor(last', r) =>
            LET n == LeaveMicName(last', rooms[r])
                S == SlotStr(last'.data.slot)
            IN  /\ r \in DOMAIN rooms'
                /\ IF last'.data.slot # 0 /\ S \in SlotsHeldBy(rooms[r], n)
                   THEN /\ rooms'[r].mic_slots = WithoutSlots(rooms[r], {S})
                        /\ n \notin DOMAIN rooms'[r].user_slots
                   ELSE /\ rooms'[r].mic_slots = rooms[r].mic_slots
                        /\ rooms'[r].user_slots = rooms[r].user_slots]_vars

\* a leave_mic without a slot number has run for a name that holds a slot,
\* and the name still holds it
C14_Witness ==
    \E r \in DOMAIN rooms :
        /\ LeaveMicFor(last, r)
        /\ last.data.slot = 0
        /\ SlotsHeldBy(rooms[r], LeaveMicName(last, rooms[r])) # {}

\* C15: a leave_mic sent by a connection that is not a member of the named
\* room leaves that room's mic_slots, user_slots and message log unchanged,
\* whatever display name and slot it carries.
C15_LeaveMicByNonMemberChangesNothing ==
    [][\A r \in DOMAIN rooms :
         ( /\ last'.ev = "leave_mic"
           /\ RoomIdOf(last') = r
           /\ ~InUsers(rooms[r], last'.sid) )
         => /\ r \in DOMAIN rooms'
            /\ rooms'[r].mic_slots = rooms[r].mic_slots
            /\ rooms'[r].user_slots = rooms[r].user_slots
            /\ rooms'[r].messages = rooms[r].messages]_vars

\* a join_mic event that handle_join_mic refuses before touching the room:
\* slot outside 1..MaxSlot, unknown room, or sender not a member
JoinMicInvalid(e) ==
    /\ e.ev = "join_mic"
    /\ \/ e.data.slot \notin 1..MaxSlot
       \/ RoomIdOf(e) \notin DOMAIN rooms
       \/ ~InUsers(rooms[RoomIdOf(e)], e.sid)

\* C16: a join_mic with a slot number outside 1..10, or naming an unknown
\* room, or sent by a non-member, is answered with one mic_error to the
\* sender only and leaves the rooms table unchanged.
C16_InvalidJoinMicOnlyErrors ==
    [][JoinMicInvalid(last') =>
          /\ rooms' = rooms
          /\ rooms_keys' = rooms_keys
          /\ Len(emitted') = 1
          /\ emitted'[1].event = "mic_error"
          /\ emitted'[1].rcpt = {last'.sid}]_vars

\* a non-member's join_mic for a valid slot of a room with a second live
\* connection in it has been answered with mic_error
C16_Witness ==
    /\ JoinMicInvalid(last)
    /\ last.data.slot \in 1..MaxSlot
    /\ RoomIdOf(last) \in DOMAIN rooms
    /\ \E s \in connected \ {last.sid} : InUsers(rooms[RoomIdOf(last)], s)
    /\ EmitsOf(emitted, "mic_error") # {}

\* a join_mic by a member of room r for the slot that mic_slots already
\* records under the name it acts for
JoinMicSameSlot(e, r) ==
    /\ e.ev = "join_mic"
    /\ RoomIdOf(e) = r
    /\ e.data.slot \in 1..MaxSlot
    /\ InUsers(rooms[r], e.sid)
    /\ SlotStr(e.data.slot) \in SlotsHeldBy(rooms[r], JoinMicName(e, rooms[r]))

\* C17: a join_mic for slot S by a name that holds S raises no mic_error and
\* leaves the room's mic_slots and user_slots maps equal to what they were.
C17_SameSlotIsNoOp ==
    [][\A r \in DOMAIN rooms :
         JoinMicSameSlot(last', r) =>
            /\ EmitsOf(emitted', "mic_error") = {}
            /\ r \in DOMAIN rooms'
            /\ rooms'[r].mic_slots = rooms[r].mic_slots
            /\ rooms'[r].user_slots = rooms[r].user_slots]_vars

\* a join_mic has released and taken again the very slot it asked for, while
\* another name sits in another slot of the room
C17_Witness ==
    /\ last.ev = "join_mic"
    /\ \E i \in EmitsOf(emitted, "user_left_mic"), j \in EmitsOf(emitted, "user_joined_mic") :
          /\ emitted[i].data.slot = last.data.slot
          /\ emitted[j].data.slot = last.data.slot
          /\ emitted[i].data.userName = emitted[j].data.userName
    /\ RoomIdOf(last) \in DOMAIN rooms
    /\ Cardinality(DOMAIN rooms[RoomIdOf(last)].mic_slots) = 2

\* C20: once the disconnect handler has run for a connection, that
\* connection id is a member of no room, whatever rooms it had joined.
C20_DisconnectedIsInNoRoom == \A sid \in gone : RoomsOf(sid) = {}

----------------------------------------------------------------------------
(* A longer run of one room: every connection joins room MicRoom under its  *)
(* own display name and asks for the first slots, up to MaxMicSteps events  *)

MaxMicSteps == 7

MicRoom == "R1"

MicSlots == {1, 2}

\* the display name connection sid joins under
MicName(sid) == IF sid = "c1" THEN "alice" ELSE "bob"

MicJoinRoom ==
    \E sid \in connected :
        /\ steps < MaxMicSteps
        /\ JoinRoomStep(sid, MicRoom, MicName(sid))
        /\ UNCHANGED aux

MicJoinMic ==
    \E sid \in connected, slot \in MicSlots :
        /\ steps < MaxMicSteps
        /\ JoinMicStep(sid, MicRoom, slot, Absent, Absent)
        /\ UNCHANGED aux

MicLeaveRoom ==
    \E sid \in connected :
        /\ steps < MaxMicSteps
        /\ LeaveRoomStep(sid, MicRoom)
        /\ UNCHANGED aux

MicDisconnect ==
    \E sid \in connected :
        /\ steps < MaxMicSteps
        /\ DisconnectStep(sid)
        /\ UNCHANGED aux

NextMic ==
    \/ Connect
    \/ MicJoinRoom
    \/ MicJoinMic
    \/ MicLeaveRoom
    \/ MicDisconnect

SpecMic == Init /\ [][NextMic]_vars

\* a leave_room or disconnect that removes connection e.sid from room r
MemberLeaves(e, r) ==
    /\ InUsers(rooms[r], e.sid)
    /\ \/ e.ev = "leave_room" /\ RoomIdOf(e) = r
       \/ e.ev = "disconnect" /\ r = rooms_keys[FirstIndex(
              {i \in 1..Len(rooms_keys) : InUsers(rooms[rooms_keys[i]], e.sid)})]

\* C19: a leave_room or disconnect of a member frees at most the slot held
\* by that member's own display name: in a room that outlives the event,
\* every slot held by a different name is still held by that name.
C19_LeaveFreesOnlyOwnSlot ==
    [][\A r \in DOMAIN rooms :
         ( MemberLeaves(last', r) /\ r \in DOMAIN rooms' ) =>
            \A k \in DOMAIN rooms[r].mic_slots :
               rooms[r].mic_slots[k] # StoredName(rooms[r], last'.sid)
               => /\ k \in DOMAIN rooms'[r].mic_slots
                  /\ rooms'[r].mic_slots[k] = rooms[r].mic_slots[k]]_vars

----------------------------------------------------------------------------
(* Counting joins and leaves: join_room and leave_room events for the room  *)
(* CountRoom only, up to MaxCountSteps events                               *)

MaxCountSteps == 5

CountRoom == "R1"

CountJoinRoom ==
    \E sid \in connected, userName \in UserNames :
        /\ steps < MaxCountSteps
        /\ JoinRoomStep(sid, CountRoom, userName)
        /\ joins' = joins + 1
        /\ UNCHANGED <<leaves, pc, thr, active_users>>

CountLeaveRoom ==
    \E sid \in connected :
        /\ steps < MaxCountSteps
        /\ LeaveRoomStep(sid, CountRoom)
        /\ leaves' = leaves + 1
        /\ UNCHANGED <<joins, pc, thr, active_users>>

NextCount ==
    \/ Connect
    \/ CountJoinRoom
    \/ CountLeaveRoom

SpecCount == Init /\ [][NextCount]_vars

\* len(rooms[r]["users"]), 0 for a room that is not in the table
MemberCount(rms, r) == IF r \in DOMAIN rms THEN Len(rms[r].users) ELSE 0

\* no two member records of room r carry the same connection id
OneRecordPerSid(rms, r) ==
    r \in DOMAIN rms =>
       \A i, j \in 1..Len(rms[r].users) :
          rms[r].users[i].socket_id = rms[r].users[j].socket_id => i = j

\* connection sid has a member record in room r
IsMember(rms, r, sid) ==
    /\ r \in DOMAIN rms
    /\ \E i \in 1..Len(rms[r].users) : rms[r].users[i].socket_id = sid

\* C13 (as stated): after any sequence of join_room and leave_room events on
\* a room, its member count equals the number of joins minus the number of
\* leaves, floored at 0, with one member record per connection id.
C13_CountIsJoinsMinusLeaves ==
    /\ MemberCount(rooms, CountRoom) =
          (IF joins > leaves THEN joins - leaves ELSE 0)
    /\ OneRecordPerSid(rooms, CountRoom)

\* C13 (amended): the member count moves with the events that change
\* membership only.  A join_room by a connection that is not a member adds
\* one record, a join_room by a member replaces its record, a leave_room by
\* a member removes one record, a leave_room by a non-member changes
\* nothing; there is always exactly one record per connection id.
C13_CountFollowsMembership ==
    [][/\ last'.ev = "join_room" /\ RoomIdOf(last') = CountRoom
          => /\ MemberCount(rooms', CountRoom) =
                   MemberCount(rooms, CountRoom)
                   + (IF IsMember(rooms, CountRoom, last'.sid) THEN 0 ELSE 1)
             /\ IsMember(rooms', CountRoom, last'.sid)
       /\ last'.ev = "leave_room" /\ RoomIdOf(last') = CountRoom
          => /\ MemberCount(rooms', CountRoom) =
                   MemberCount(rooms, CountRoom)
                   - (IF IsMember(rooms, CountRoom, last'.sid) THEN 1 ELSE 0)
             /\ ~IsMember(rooms', CountRoom, last'.sid)
       /\ OneRecordPerSid(rooms', CountRoom)]_vars

\* a member has joined the room again, under another name, and the room
\* still has one record for it beside the other connection's
C13_Witness ==
    /\ last.ev = "join_room"
    /\ joins = 3
    /\ leaves = 0
    /\ MemberCount(rooms, CountRoom) = 2
    /\ StoredName(rooms[CountRoom], last.sid) = last.data.userName

----------------------------------------------------------------------------
(* The admin/guest relay of src/app.py: the active_users table and the      *)
(* Socket.IO handlers that register the two roles and forward WebRTC        *)
(* signaling between them, up to MaxRelaySteps events.  An emit record      *)
(* has the same shape as the room server's.                                 *)

MaxRelaySteps == 4

\* offer, answer and candidate contents; Absent is a payload without the key
Payloads == {"p1", "p2"}

\* data['target'] of an ice-candidate event
IceTargets == {"admin", "guest", "other"}

\* emit(event, data) inside a handler: to the sender
RelayEmitSelf(event, data, sid) ==
    [event |-> event, data |-> data, to |-> sid, rcpt |-> {sid}]

\* emit(event, broadcast=True) from the disconnect handler of sid
RelayEmitBroadcast(event, sid) ==
    [event |-> event, data |-> << >>, to |-> "", rcpt |-> connected \ {sid}]

\* RelayEmitTo that hands the message to every connection
RelayEmitToAll(event, data, target) ==
    [event |-> event, data |-> data, to |-> target, rcpt |-> connected]

\* emit(event, data, room=target): target is a connection id, and reaches
\* that connection if it is live
RelayEmitTo(event, data, target) ==
    [event |-> event, data |-> data, to |-> target,
     rcpt |-> {target} \cap connected]

RelayResult(users, out) == [users |-> users, out |-> out]

\* src/app.py handle_disconnect
RelayHandleDisconnect(sid) ==
    IF active_users.admin = sid
    THEN RelayResult([active_users EXCEPT !.admin = None],
                     << RelayEmitBroadcast("admin-disconnected", sid) >>)
    ELSE IF active_users.guest = sid
    THEN RelayResult([active_users EXCEPT !.guest = None],
                     << RelayEmitBroadcast("guest-disconnected", sid) >>)
    ELSE RelayResult(active_users, << >>)

\* HandleRegisterAdmin that gives the role to the requester even when it is
\* held
HandleRegisterAdminTakesOver(sid) ==
    RelayResult([active_users EXCEPT !.admin = sid],
                << RelayEmitSelf("admin-registered", [success |-> TRUE], sid) >>)

HandleRegisterAdmin(sid) ==
    IF active_users.admin = None
    THEN RelayResult([active_users EXCEPT !.admin = sid],
                     << RelayEmitSelf("admin-registered", [success |-> TRUE], sid) >>
                     \o (IF active_users.guest # None
                         THEN << RelayEmitTo("admin-joined", << >>,
                                             active_users.guest) >>
                         ELSE << >>))
    ELSE RelayResult(active_users,
                     << RelayEmitSelf("admin-registered",
                                      [success |-> FALSE,
                                       error |-> "Admin already exists"], sid) >>)

HandleRegisterGuest(sid) ==
    IF active_users.guest = None
    THEN RelayResult([active_users EXCEPT !.guest = sid],
                     << RelayEmitSelf("guest-registered", [success |-> TRUE], sid) >>
                     \o (IF active_users.admin # None
                         THEN << RelayEmitTo("guest-joined", << >>,
                                             active_users.admin) >>
                         ELSE << >>))
    ELSE RelayResult(active_users,
                     << RelayEmitSelf("guest-registered",
                                      [success |-> FALSE,
                                       error |-> "Guest slot is full"], sid) >>)

HandleGetUsers(sid) ==
    RelayResult(active_users,
                << RelayEmitSelf("users-status",
                                 [admin |-> active_users.admin # None,
                                  guest |-> active_users.guest # None,
                                  room_id |-> "ADMIN-VOICE-ROOM-2024"], sid) >>)

\* the four offer/answer handlers; data['offer'] of a payload without the
\* key raises KeyError, which ends the handler before it emits
HandleAdminOffer(offer) ==
    IF active_users.guest # None /\ offer # Absent
    THEN RelayResult(active_users,
                     << RelayEmitTo("admin-offer",
                                    [offer |-> offer, from |-> "admin"],
                                    active_users.guest) >>)
    ELSE RelayResult(active_users, << >>)

HandleGuestAnswer(answer) ==
    IF active_users.admin # None /\ answer # Absent
    THEN RelayResult(active_users,
                     << RelayEmitTo("guest-answer",
                                    [answer |-> answer, from |-> "guest"],
                                    active_users.admin) >>)
    ELSE RelayResult(active_users, << >>)

HandleGuestOffer(offer) ==
    IF active_users.admin # None /\ offer # Absent
    THEN RelayResult(active_users,
                     << RelayEmitTo("guest-offer",
                                    [offer |-> offer, from |-> "guest"],
                                    active_users.admin) >>)
    ELSE RelayResult(active_users, << >>)

HandleAdminAnswer(answer) ==
    IF active_users.guest # None /\ answer # Absent
    THEN RelayResult(active_users,
                     << RelayEmitTo("admin-answer",
                                    [answer |-> answer, from |-> "admin"],
                                    active_users.guest) >>)
    ELSE RelayResult(active_users, << >>)

HandleIceCandidate(target, candidate) ==
    IF candidate = Absent
    THEN RelayResult(active_users, << >>)
    ELSE IF target = "admin" /\ active_users.admin # None
    THEN RelayResult(active_users,
                     << RelayEmitTo("ice-candidate",
                                    [candidate |-> candidate, from |-> "guest"],
                                    active_users.admin) >>)
    ELSE IF target = "guest" /\ active_users.guest # None
    THEN RelayResult(active_users,
                     << RelayEmitTo("ice-candidate",
                                    [candidate |-> candidate, from |-> "admin"],
                                    active_users.guest) >>)
    ELSE RelayResult(active_users, << >>)

\* the relay handler's write to active_users and its emits, for event ev
RelayHandled(res, ev, sid, data) ==
    /\ active_users' = res.users
    /\ emitted' = res.out
    /\ last' = [ev |-> ev, sid |-> sid, data |-> data]
    /\ steps' = steps + 1
    /\ UNCHANGED <<sio_rooms, rooms, rooms_keys, joins, leaves, pc, thr>>

\* src/app.py handle_connect: it only logs
RelayConnect ==
    \E sid \in Sids \ (connected \cup gone) :
        /\ connected' = connected \cup {sid}
        /\ emitted' = << >>
        /\ last' = [ev |-> "connect", sid |-> sid, data |-> << >>]
        /\ UNCHANGED <<gone, sio_rooms, rooms, rooms_keys, steps>>
        /\ UNCHANGED aux

RelayDisconnect ==
    \E sid \in connected :
        /\ steps < MaxRelaySteps
        /\ RelayHandled(RelayHandleDisconnect(sid), "disconnect", sid, << >>)
        /\ connected' = connected \ {sid}
        /\ gone' = gone \cup {sid}

RegisterAdmin ==
    \E sid \in connected :
        /\ steps < MaxRelaySteps
        /\ RelayHandled(HandleRegisterAdmin(sid), "register-admin", sid, << >>)
        /\ UNCHANGED <<connected, gone>>

RegisterGuest ==
    \E sid \in connected :
        /\ steps < MaxRelaySteps
        /\ RelayHandled(HandleRegisterGuest(sid), "register-guest", sid, << >>)
        /\ UNCHANGED <<connected, gone>>

GetUsers ==
    \E sid \in connected :
        /\ steps < MaxRelaySteps
        /\ RelayHandled(HandleGetUsers(sid), "get-users", sid, << >>)
        /\ UNCHANGED <<connected, gone>>

AdminOffer ==
    \E sid \in connected, offer \in Payloads \cup {Absent} :
        /\ steps < MaxRelaySteps
        /\ RelayHandled(HandleAdminOffer(offer), "admin-offer", sid,
                        [offer |-> offer])
        /\ UNCHANGED <<connected, gone>>

GuestAnswer ==
    \E sid \in connected, answer \in Payloads \cup {Absent} :
        /\ steps < MaxRelaySteps
        /\ RelayHandled(HandleGuestAnswer(answer), "guest-answer", sid,
                        [answer |-> answer])
        /\ UNCHANGED <<connected, gone>>

GuestOffer ==
    \E sid \in connected, offer \in Payloads \cup {Absent} :
        /\ steps < MaxRelaySteps
        /\ RelayHandled(HandleGuestOffer(offer), "guest-offer", sid,
                        [offer |-> offer])
        /\ UNCHANGED <<connected, gone>>

AdminAnswer ==
    \E sid \in connected, answer \in Payloads \cup {Absent} :
        /\ steps < MaxRelaySteps
        /\ RelayHandled(HandleAdminAnswer(answer), "admin-answer", sid,
                        [answer |-> answer])
        /\ UNCHANGED <<connected, gone>>

IceCandidate ==
    \E sid \in connected, target \in IceTargets,
       candidate \in Payloads \cup {Absent} :
        /\ steps < MaxRelaySteps
        /\ RelayHandled(HandleIceCandidate(target, candidate), "ice-candidate",
                        sid, [target |-> target, candidate |-> candidate])
        /\ UNCHANGED <<connected, gone>>

NextRelay ==
    \/ RelayConnect
    \/ RelayDisconnect
    \/ RegisterAdmin
    \/ RegisterGuest
    \/ GetUsers
    \/ AdminOffer
    \/ GuestAnswer
    \/ GuestOffer
    \/ AdminAnswer
    \/ IceCandidate

SpecRelay == Init /\ [][NextRelay]_vars

SignalingEvents ==
    {"admin-offer", "admin-answer", "guest-offer", "guest-answer", "ice-candidate"}

\* the role a signaling event e is meant for
TargetRole(e) ==
    IF e.ev \in {"admin-offer", "admin-answer"} THEN "guest"
    ELSE IF e.ev \in {"guest-offer", "guest-answer"} THEN "admin"
    ELSE e.data.target

\* the offer, answer or candidate a signaling payload d carries
PayloadOf(d) ==
    IF "offer" \in DOMAIN d THEN d.offer
    ELSE IF "answer" \in DOMAIN d THEN d.answer
    ELSE d.candidate

\* C18: every signaling event of the relay is a stateless pass-through.  If
\* the target role has a registered connection, one message of the same
\* event goes out, addressed to exactly that connection, carrying the
\* payload unchanged, and no other connection receives it; if the target
\* role is unregistered nothing is emitted; active_users is unchanged either
\* way.
C18_SignalingIsPassThrough ==
    [][( last'.ev \in SignalingEvents /\ PayloadOf(last'.data) # Absent ) =>
          LET role == TargetRole(last')
          IN  /\ active_users' = active_users
              /\ IF role \in {"admin", "guest"} /\ active_users[role] # None
                 THEN /\ Len(emitted') = 1
                      /\ emitted'[1].event = last'.ev
                      /\ emitted'[1].to = active_users[role]
                      /\ PayloadOf(emitted'[1].data) = PayloadOf(last'.data)
                      /\ DOMAIN emitted'[1].data =
                            (DOMAIN last'.data \ {"target"}) \cup {"from"}
                      /\ emitted'[1].rcpt \subseteq {active_users[role]}
                      /\ active_users[role] \in connected'
                            => emitted'[1].rcpt = {active_users[role]}
                 ELSE emitted' = << >>]_vars

\* an admin-offer with payload p2 has been handed to the registered guest
\* while a second connection, the admin, is live
C18_Witness ==
    /\ last.ev = "admin-offer"
    /\ last.data.offer = "p2"
    /\ active_users.admin \in connected
    /\ active_users.guest \in connected \ {active_users.admin}
    /\ Len(emitted) = 1
    /\ emitted[1].rcpt = {active_users.guest}
    /\ emitted[1].data.offer = "p2"

----------------------------------------------------------------------------
(* Handler threads.  The server is built with async_mode="threading" and    *)
(* takes no lock, so the statements of two handle_join_mic calls can        *)
(* interleave.  Here join_room stays one step and handle_join_mic is cut    *)
(* at its reads and writes of the room; pc[sid] is where the handler of     *)
(* connection sid stands, thr[sid] its locals and the emits it has made.    *)
(* Every connection joins MicRoom under its own name and sends at most one  *)
(* join_mic; MaxRaceSteps bounds the events received.                       *)

MaxRaceSteps == 4

RaceJoinRoom ==
    \E sid \in connected :
        /\ steps < MaxRaceSteps
        /\ JoinRoomStep(sid, MicRoom, MicName(sid))
        /\ UNCHANGED aux

\* what a thread step leaves alone besides the room
RaceFrame == <<connected, gone, sio_rooms, rooms_keys, emitted, last,
               joins, leaves, active_users>>

\* the request arrives and the handler runs up to "Get username from stored
\* data if not provided": the guards, and the name it acts for
JmStart ==
    \E sid \in connected, slot \in MicSlots :
        /\ steps < MaxRaceSteps
        /\ pc[sid] = "idle"
        /\ steps' = steps + 1
        /\ IF MicRoom \notin DOMAIN rooms
           THEN /\ pc' = [pc EXCEPT ![sid] = "done"]
                /\ thr' = [thr EXCEPT ![sid] =
                             [slot |-> slot, username |-> "",
                              out |-> << MicError(<<"Invalid room or slot">>, sid) >>]]
           ELSE IF ~InUsers(rooms[MicRoom], sid)
           THEN /\ pc' = [pc EXCEPT ![sid] = "done"]
                /\ thr' = [thr EXCEPT ![sid] =
                             [slot |-> slot, username |-> "",
                              out |-> << MicError(<<"You are not in this room">>, sid) >>]]
           ELSE /\ pc' = [pc EXCEPT ![sid] = "remove_old"]
                /\ thr' = [thr EXCEPT ![sid] =
                             [slot |-> slot,
                              username |-> StoredName(rooms[MicRoom], sid),
                              out |-> << >>]]
        /\ UNCHANGED rooms
        /\ UNCHANGED RaceFrame

\* "Remove user from any existing slot"
JmRemoveOld ==
    \E sid \in connected :
        /\ pc[sid] = "remove_old"
        /\ LET removed == JoinMicRemoveOld(rooms[MicRoom], MicRoom,
                                           thr[sid].username, sid)
           IN  /\ rooms' = DictPut(rooms, MicRoom, removed.room)
               /\ thr' = [thr EXCEPT ![sid].out = @ \o removed.out]
        /\ pc' = [pc EXCEPT ![sid] = "check"]
        /\ UNCHANGED steps
        /\ UNCHANGED RaceFrame

\* "Check if slot is available"
JmCheck ==
    \E sid \in connected :
        /\ pc[sid] = "check"
        /\ IF JoinMicSlotTaken(rooms[MicRoom], thr[sid].slot, thr[sid].username)
           THEN /\ pc' = [pc EXCEPT ![sid] = "done"]
                /\ thr' = [thr EXCEPT ![sid].out = @ \o
                             << MicError(<<"Slot ", SlotStr(thr[sid].slot),
                                           " is already taken by ",
                                           rooms[MicRoom].mic_slots[SlotStr(thr[sid].slot)]>>,
                                         sid) >>]
           ELSE /\ pc' = [pc EXCEPT ![sid] = "assign_mic"]
                /\ thr' = thr
        /\ UNCHANGED <<rooms, steps>>
        /\ UNCHANGED RaceFrame

\* room["mic_slots"][str(slot)] = username
JmAssignMic ==
    \E sid \in connected :
        /\ pc[sid] = "assign_mic"
        /\ rooms' = [rooms EXCEPT ![MicRoom].mic_slots =
                        DictPut(@, SlotStr(thr[sid].slot), thr[sid].username)]
        /\ pc' = [pc EXCEPT ![sid] = "assign_user"]
        /\ UNCHANGED <<thr, steps>>
        /\ UNCHANGED RaceFrame

\* room["user_slots"][username] = slot
JmAssignUser ==
    \E sid \in connected :
        /\ pc[sid] = "assign_user"
        /\ rooms' = [rooms EXCEPT ![MicRoom].user_slots =
                        DictPut(@, thr[sid].username, thr[sid].slot)]
        /\ pc' = [pc EXCEPT ![sid] = "notify"]
        /\ UNCHANGED <<thr, steps>>
        /\ UNCHANGED RaceFrame

\* the three emits and the system message that end the handler
JmNotify ==
    \E sid \in connected :
        /\ pc[sid] = "notify"
        /\ LET room == rooms[MicRoom]
               msg  == [user |-> "System",
                        text |-> <<thr[sid].username, " joined mic slot ",
                                   SlotStr(thr[sid].slot)>>]
           IN  /\ rooms' = [rooms EXCEPT ![MicRoom].messages = Append(@, msg)]
               /\ thr' = [thr EXCEPT ![sid].out = @ \o
                            << EmitRoom(sio_rooms, "mic_update", room.mic_slots,
                                        MicRoom, sid, TRUE),
                               EmitRoom(sio_rooms, "user_joined_mic",
                                        [slot     |-> thr[sid].slot,
                                         userName |-> thr[sid].username,
                                         userId   |-> DictGet(room.user_ids,
                                                              thr[sid].username, "")],
                                        MicRoom, sid, TRUE),
                               EmitRoom(sio_rooms, "new_message", msg,
                                        MicRoom, sid, TRUE) >>]
        /\ pc' = [pc EXCEPT ![sid] = "done"]
        /\ UNCHANGED steps
        /\ UNCHANGED RaceFrame

NextRace ==
    \/ Connect
    \/ RaceJoinRoom
    \/ JmStart
    \/ JmRemoveOld
    \/ JmCheck
    \/ JmAssignMic
    \/ JmAssignUser
    \/ JmNotify

SpecRace == Init /\ [][NextRace]_vars

\* the handler thread of sid has ended after passing the guards
RaceEnded(sid) == pc[sid] = "done" /\ thr[sid].username # ""

\* the handler thread of sid took its slot
RaceSucceeded(sid) == EmitsOf(thr[sid].out, "user_joined_mic") # {}

\* C12: when the join_mic handlers of two connections, for the same free
\* slot and two different display names, have both ended, exactly one of
\* them has succeeded, the other has got the slot-taken mic_error, and the
\* room's two slot maps are exact inverses.
C12_OneWinnerPerSlot ==
    \A s1, s2 \in Sids :
       ( /\ s1 # s2
         /\ RaceEnded(s1) /\ RaceEnded(s2)
         /\ thr[s1].slot = thr[s2].slot
         /\ thr[s1].username # thr[s2].username )
       => /\ RaceSucceeded(s1) # RaceSucceeded(s2)
          /\ \A s \in {s1, s2} :
                ~RaceSucceeded(s) => SlotTakenErrors(thr[s].out) # {}
          /\ InverseMaps(rooms[MicRoom])

----------------------------------------------------------------------------
(* C21 - C24 *)

RelayRoles == {"admin", "guest"}

\* the register event of a role
RegisterEvent(role) == IF role = "admin" THEN "register-admin" ELSE "register-guest"

\* the answer event of a register event
RegisteredEvent(role) == IF role = "admin" THEN "admin-registered" ELSE "guest-registered"

\* C22: a relay role is exclusive.  While a role is held, a register event
\* for it from any connection is answered with success False to the sender
\* and leaves active_users unchanged; the holder of a role changes only in
\* the disconnect of the current holder.
C22_RoleIsExclusive ==
    [][\A role \in RelayRoles :
         active_users[role] # None =>
            /\ last'.ev = RegisterEvent(role) =>
                  /\ active_users' = active_users
                  /\ Len(emitted') = 1
                  /\ emitted'[1].event = RegisteredEvent(role)
                  /\ emitted'[1].data.success = FALSE
                  /\ emitted'[1].rcpt = {last'.sid}
            /\ active_users'[role] # active_users[role] =>
                  /\ last'.ev = "disconnect"
                  /\ last'.sid = active_users[role]
                  /\ active_users'[role] = None]_vars

\* a second connection has asked for the admin role while a live connection
\* holds it, and has been refused
C22_Witness ==
    /\ last.ev = "register-admin"
    /\ active_users.admin \in connected \ {last.sid}
    /\ Len(emitted) = 1
    /\ emitted[1].data.success = FALSE

\* C23: once the disconnect handler has run for a connection, neither
\* active_users['admin'] nor active_users['guest'] holds its id.
C23_GoneHoldsNoRole ==
    \A sid \in gone : \A role \in RelayRoles : active_users[role] # sid

\* C24: every forwarded signaling message carries the role of its actual
\* sender: one tagged from='admin' was sent by the connection registered as
\* admin, one tagged from='guest' by the connection registered as guest.
C24_FromIsSendersRole ==
    [][last'.ev \in SignalingEvents =>
          \A i \in 1..Len(emitted') :
             last'.sid = active_users[emitted'[i].data.from]]_vars

----------------------------------------------------------------------------
(* Handler threads of join_room, leave_room and disconnect on the one room  *)
(* MicRoom.  A handler keeps a reference to the room object it looked up    *)
(* (room = get_or_create_room(room_id), room = rooms[room_id]); when another *)
(* thread deletes the table entry, the object lives on in the handlers that *)
(* hold it.  thr[sid].detached says that the handler's room object is no    *)
(* longer the one in the table, and thr[sid].room is then that object.      *)
(* With two connections and one handler per connection at a time, a         *)
(* detached object has one holder.  MaxJoinLeaveSteps bounds the events     *)
(* received.                                                                *)

MaxJoinLeaveSteps == 4

\* the handler of sid is between its lookup of the room and its end
InFlight(sid) == pc[sid] # "idle"

\* the room object the handler of sid works on
ThreadRoom(sid) == IF thr[sid].detached THEN thr[sid].room ELSE rooms[MicRoom]

\* the handler of sid writes its room object, and its locals become locals
SetRoom(sid, room, locals) ==
    IF thr[sid].detached
    THEN /\ thr' = [thr EXCEPT ![sid] = [locals EXCEPT !.room = room]]
         /\ UNCHANGED <<rooms, rooms_keys>>
    ELSE /\ rooms' = DictPut(rooms, MicRoom, room)
         /\ thr' = [thr EXCEPT ![sid] = locals]
         /\ UNCHANGED rooms_keys

\* "Clean empty room" run by the handler of sid, which then ends:
\* if not room["users"]: del rooms[room_id].  The test reads the handler's
\* object, the del takes whatever object the table holds (KeyError, which
\* ends the handler, if it holds none); the handlers that were working on
\* the table's object keep it
CleanEmpty(sid) ==
    IF ThreadRoom(sid).users = << >> /\ MicRoom \in DOMAIN rooms
    THEN /\ rooms' = RoomsDel(MicRoom).rooms
         /\ rooms_keys' = RoomsDel(MicRoom).keys
         /\ thr' = [s \in Sids |->
                      IF s # sid /\ InFlight(s) /\ ~thr[s].detached
                      THEN [thr[s] EXCEPT !.detached = TRUE,
                                          !.room = rooms[MicRoom]]
                      ELSE thr[s]]
    ELSE UNCHANGED <<rooms, rooms_keys, thr>>

\* what no thread step of this specification touches
ThreadFrame == <<emitted, last, joins, leaves, active_users>>

\* join_room arrives: room = get_or_create_room(room_id)
JrStart ==
    \E sid \in connected :
        /\ steps < MaxJoinLeaveSteps
        /\ pc[sid] = "idle"
        /\ steps' = steps + 1
        /\ rooms' = GetOrCreateRoom(MicRoom).rooms
        /\ rooms_keys' = GetOrCreateRoom(MicRoom).keys
        /\ thr' = [thr EXCEPT ![sid] = [username |-> MicName(sid), out |-> << >>,
                                        detached |-> FALSE, room |-> NewRoom]]
        /\ pc' = [pc EXCEPT ![sid] = "jr_store"]
        /\ UNCHANGED <<connected, gone, sio_rooms>>
        /\ UNCHANGED ThreadFrame

\* room["users"][request.sid] = user_data
JrStore ==
    \E sid \in connected :
        /\ pc[sid] = "jr_store"
        /\ SetRoom(sid, [ThreadRoom(sid) EXCEPT
                           !.users = UsersPut(@, [name |-> thr[sid].username,
                                                  socket_id |-> sid])],
                   thr[sid])
        /\ pc' = [pc EXCEPT ![sid] = "jr_notify"]
        /\ UNCHANGED <<connected, gone, sio_rooms, steps>>
        /\ UNCHANGED ThreadFrame

\* join_room(room_id), the room_data emit, the join message and its emit
JrNotify ==
    \E sid \in connected :
        /\ pc[sid] = "jr_notify"
        /\ LET room == ThreadRoom(sid)
               sio1 == [sio_rooms EXCEPT ![sid] = @ \cup {MicRoom}]
               msg  == JoinedMsg(thr[sid].username)
           IN  /\ sio_rooms' = sio1
               /\ SetRoom(sid, [room EXCEPT !.messages = Append(@, msg)],
                          [thr[sid] EXCEPT !.out =
                             << EmitSid("room_data",
                                        RoomData(room, MicRoom, thr[sid].username),
                                        sid),
                                JoinRoomAnnounce(sio1, msg, MicRoom, sid) >>])
        /\ pc' = [pc EXCEPT ![sid] = "idle"]
        /\ UNCHANGED <<connected, gone, steps>>
        /\ UNCHANGED ThreadFrame

\* leave_room arrives: the two early returns, room = rooms[room_id] and the
\* stored name
LrStart ==
    \E sid \in connected :
        /\ steps < MaxJoinLeaveSteps
        /\ pc[sid] = "idle"
        /\ steps' = steps + 1
        /\ IF LeaveRoomReturnsEarly(sid, MicRoom)
           THEN UNCHANGED <<pc, thr>>
           ELSE /\ pc' = [pc EXCEPT ![sid] = "lr_remove"]
                /\ thr' = [thr EXCEPT ![sid] =
                             [username |-> StoredName(rooms[MicRoom], sid),
                              out |-> << >>, detached |-> FALSE,
                              room |-> NewRoom]]
        /\ UNCHANGED <<connected, gone, sio_rooms, rooms, rooms_keys>>
        /\ UNCHANGED ThreadFrame

\* "Remove from mic slots if user was in a slot" and
\* del room["users"][request.sid]
LrRemove ==
    \E sid \in connected :
        /\ pc[sid] = "lr_remove"
        /\ LET freed == LeaveRoomFreeSlot(ThreadRoom(sid), MicRoom,
                                          thr[sid].username, sid)
           IN  SetRoom(sid, [freed.room EXCEPT !.users = UsersDel(@, sid)],
                       [thr[sid] EXCEPT !.out = @ \o freed.out])
        /\ pc' = [pc EXCEPT ![sid] = "lr_notify"]
        /\ UNCHANGED <<connected, gone, sio_rooms, steps>>
        /\ UNCHANGED ThreadFrame

\* the leave message, its emit, and leave_room(room_id)
LrNotify ==
    \E sid \in connected :
        /\ pc[sid] = "lr_notify"
        /\ LET msg == LeftMsg(thr[sid].username)
           IN  SetRoom(sid, [ThreadRoom(sid) EXCEPT !.messages = Append(@, msg)],
                       [thr[sid] EXCEPT !.out = @ \o
                          << EmitRoom(sio_rooms, "new_message", msg,
                                      MicRoom, sid, TRUE) >>])
        /\ sio_rooms' = [sio_rooms EXCEPT ![sid] = @ \ {MicRoom}]
        /\ pc' = [pc EXCEPT ![sid] = "lr_clean"]
        /\ UNCHANGED <<connected, gone, steps>>
        /\ UNCHANGED ThreadFrame

\* "Clean empty room", the end of handle_leave_room
LrClean ==
    \E sid \in connected :
        /\ pc[sid] = "lr_clean"
        /\ CleanEmpty(sid)
        /\ pc' = [pc EXCEPT ![sid] = "idle"]
        /\ UNCHANGED <<connected, gone, sio_rooms, steps>>
        /\ UNCHANGED ThreadFrame

\* the connection of sid ends and handle_disconnect starts: its loop finds
\* the room that has the sid among its users, if there is one
DcStart ==
    \E sid \in connected :
        /\ steps < MaxJoinLeaveSteps
        /\ pc[sid] = "idle"
        /\ steps' = steps + 1
        /\ connected' = connected \ {sid}
        /\ gone' = gone \cup {sid}
        /\ IF MicRoom \in DOMAIN rooms /\ InUsers(rooms[MicRoom], sid)
           THEN /\ pc' = [pc EXCEPT ![sid] = "dc_remove"]
                /\ thr' = [thr EXCEPT ![sid] =
                             [username |-> StoredName(rooms[MicRoom], sid),
                              out |-> << >>, detached |-> FALSE,
                              room |-> NewRoom]]
                /\ UNCHANGED sio_rooms
           ELSE /\ sio_rooms' = [sio_rooms EXCEPT ![sid] = {}]
                /\ UNCHANGED <<pc, thr>>
        /\ UNCHANGED <<rooms, rooms_keys>>
        /\ UNCHANGED ThreadFrame

\* handle_disconnect: "Remove from mic slots if user was in a slot" and
\* del room_data["users"][request.sid]
DcRemove ==
    \E sid \in gone :
        /\ pc[sid] = "dc_remove"
        /\ LET freed == LeaveRoomFreeSlot(ThreadRoom(sid), MicRoom,
                                          thr[sid].username, sid)
           IN  SetRoom(sid, [freed.room EXCEPT !.users = UsersDel(@, sid)],
                       [thr[sid] EXCEPT !.out = @ \o freed.out])
        /\ pc' = [pc EXCEPT ![sid] = "dc_notify"]
        /\ UNCHANGED <<connected, gone, sio_rooms, steps>>
        /\ UNCHANGED ThreadFrame

\* handle_disconnect: the leave message and its emit
DcNotify ==
    \E sid \in gone :
        /\ pc[sid] = "dc_notify"
        /\ LET msg == LeftMsg(thr[sid].username)
           IN  SetRoom(sid, [ThreadRoom(sid) EXCEPT !.messages = Append(@, msg)],
                       [thr[sid] EXCEPT !.out = @ \o
                          << EmitRoom(sio_rooms, "new_message", msg,
                                      MicRoom, sid, TRUE) >>])
        /\ pc' = [pc EXCEPT ![sid] = "dc_clean"]
        /\ UNCHANGED <<connected, gone, sio_rooms, steps>>
        /\ UNCHANGED ThreadFrame

\* handle_disconnect: "Clean empty room" and break; Socket.IO then drops
\* the sid from its rooms
DcClean ==
    \E sid \in gone :
        /\ pc[sid] = "dc_clean"
        /\ CleanEmpty(sid)
        /\ sio_rooms' = [sio_rooms EXCEPT ![sid] = {}]
        /\ pc' = [pc EXCEPT ![sid] = "idle"]
        /\ UNCHANGED <<connected, gone, steps>>
        /\ UNCHANGED ThreadFrame

NextJoinLeave ==
    \/ Connect
    \/ JrStart
    \/ JrStore
    \/ JrNotify
    \/ LrStart
    \/ LrRemove
    \/ LrNotify
    \/ LrClean
    \/ DcStart
    \/ DcRemove
    \/ DcNotify
    \/ DcClean

SpecJoinLeave == Init /\ [][NextJoinLeave]_vars

\* the join_room handler of sid ends in this step
JoinRoomEnds(sid) == pc[sid] = "jr_notify" /\ pc'[sid] = "idle"

\* C21: when a join_room handler ends, whatever leave_room or disconnect of
\* the room's last member ran beside it, the joiner is a member of the room
\* that the rooms table holds under that id.
C21_JoinerIsInTableRoom ==
    [][\A sid \in Sids :
         JoinRoomEnds(sid) => IsMember(rooms', MicRoom, sid)]_vars

====
